---- MODULE Spec2Model ----
(***************************************************************************)
(* Skill-match, fit-assessment and interview-readiness logic of the Smart  *)
(* Career Advisor application (app/main.py, src/interview_prep.py).        *)
(*                                                                         *)
(* Numbers.  match_score is the Python float len(matched)/len(jd)*100; it  *)
(* is kept here as the exact fraction num/den and compared by cross        *)
(* multiplication.  Readiness scores are kept in tenths, so that           *)
(* round(avg, 1) is an integer.  Probabilities and confidences are kept in *)
(* thousandths.                                                            *)
(***************************************************************************)
EXTENDS Integers, Sequences, FiniteSets, TLC

\* ------------------------------------------------------------------ bounds
\* longest skill list an extractor returns in the model
MaxSkills == 2
\* longest sequence of interview evaluations in the model
MaxEvals == 3
\* most questions a generated interview session has in the model
MaxQuestions == 2
\* longest raw string handed to the normalizer, in characters
MaxRawLen == 3
\* last calendar day of the model's clock, counted from day 0
MaxDay == 3
\* most calls of update_activity in a behaviour
MaxSessions == 4
\* most evaluations in a long practice session
MaxRun == 21
\* most runs of the page script with a resume uploaded
MaxAnalyses == 4

\* the skill vocabulary of the model
Skills == {"python", "sql", "aws"}

\* overall_score values an evaluation can carry; NoScore stands for an
\* evaluation dict without the 'overall_score' key
NoScore == -1
ScoreValues == {NoScore, 0, 55, 60, 70, 85, 90, 100}

SeqsUpTo(S, n) == UNION {[1..k -> S] : k \in 0..n}

\* Python set(list)
ToSet(s) == {s[i] : i \in DOMAIN s}

Abs(x) == IF x < 0 THEN -x ELSE x
Min(a, b) == IF a < b THEN a ELSE b
Max(a, b) == IF a > b THEN a ELSE b

RECURSIVE SumSeq(_)
SumSeq(s) == IF s = <<>> THEN 0 ELSE Head(s) + SumSeq(Tail(s))

\* ------------------------------------------------------------------- state
VARIABLES
    \* --- one run of the page script (app/main.py)
    resume_text,      \* "none" | "empty" | "text"
    jd_text,          \* "none" | "empty" | "text"
    resume_skills,    \* what the extractor returned for the resume
    jd_skills,        \* what the extractor returned for the job description
    match_ran,        \* the block under line 815 was executed in this run
    matched_skills,
    missing_skills,
    extra_skills,
    match_score,      \* [num, den]: the fraction num/den
    model_loaded,     \* the statistical model and its pipeline were loaded
    result,           \* the FitVerdict of predict_fit, or NoVerdict
    fit_raised,       \* predict_fit let an exception escape
    inference_threw,  \* the model's inference threw in the last call
    page_ran,         \* the script has run with the uploaded documents
    \* --- the readiness aggregator (src/interview_prep.py)
    evaluations,      \* the argument of calculate_interview_readiness_score
    readiness,        \* its return value, or NoReadiness
    assessed

matchVars == <<resume_text, jd_text, resume_skills, jd_skills, match_ran,
               matched_skills, missing_skills, extra_skills, match_score,
               model_loaded, result, fit_raised, inference_threw, page_ran>>

assessVars == <<evaluations, readiness, assessed>>

\* ================================================= readiness aggregator
\* eval_data.get('overall_score', 0)
GetOverallScore(score) == IF score = NoScore THEN 0 ELSE score

\* sum(eval_data.get('overall_score', 0) for eval_data in evaluations)
RECURSIVE TotalScore(_)
TotalScore(evals) ==
    IF evals = <<>> THEN 0
    ELSE GetOverallScore(Head(evals)) + TotalScore(Tail(evals))

\* Round1 with the fraction cut off instead of rounded
Round1Truncated(total, n) == (10 * total) \div n

\* round(total / n, 1), in tenths: Python rounds to the nearest tenth and a
\* tie (x.x5 exactly representable: x.25, x.75) goes to the even digit
Round1(total, n) ==
    LET q == (10 * total) \div n
        r == (10 * total) % n
    IN  IF 2 * r > n \/ (2 * r = n /\ q % 2 = 1) THEN q + 1 ELSE q

\* ReadinessLevel with the 60 threshold exclusive
ReadinessLevelExclusive(total, n) ==
    IF total >= 90 * n THEN "Excellent"
    ELSE IF total >= 80 * n THEN "Good"
    ELSE IF total >= 70 * n THEN "Satisfactory"
    ELSE IF total > 60 * n THEN "Needs Improvement"
    ELSE "Requires Significant Work"

\* the if/elif chain on avg_score = total / n (the unrounded mean)
ReadinessLevel(total, n) ==
    IF total >= 90 * n THEN "Excellent"
    ELSE IF total >= 80 * n THEN "Good"
    ELSE IF total >= 70 * n THEN "Satisfactory"
    ELSE IF total >= 60 * n THEN "Needs Improvement"
    ELSE "Requires Significant Work"

Recommendations(level) ==
    CASE level = "Excellent" ->
            <<"You're well-prepared! Focus on company-specific research">>
      [] level = "Good" ->
            <<"Strong preparation. Practice a few more questions">>
      [] level = "Satisfactory" ->
            <<"Good start. Focus on technical depth and examples">>
      [] level = "Needs Improvement" ->
            <<"Practice more. Focus on STAR method and technical details">>
      [] OTHER ->
            <<"Intensive practice needed. Consider mock interviews">>

\* the returned dict; its DOMAIN is the dict's key set
calculate_interview_readiness_score(evals) ==
    IF evals = <<>> THEN
        [overall_score |-> 0,
         readiness_level |-> "Not Started",
         recommendations |-> <<"Start practicing interview questions">>]
    ELSE
        LET total_score == TotalScore(evals)
            n == Len(evals)
            level == ReadinessLevel(total_score, n)
        IN  [overall_score |-> Round1(total_score, n),
             readiness_level |-> level,
             recommendations |-> Recommendations(level),
             total_questions |-> n]

NoReadiness == [none |-> TRUE]

InitAssess ==
    /\ evaluations \in SeqsUpTo(ScoreValues, MaxEvals)
    /\ readiness = NoReadiness
    /\ assessed = FALSE

Assess ==
    /\ ~assessed
    /\ readiness' = calculate_interview_readiness_score(evaluations)
    /\ assessed' = TRUE
    /\ UNCHANGED evaluations

\* ======================================================== match engine
\* TextKinds: a document that was not uploaded (None), one whose extracted
\* text is the empty string, and one with text
TextKinds == {"none", "empty", "text"}

\* Python truthiness of resume_text / jd_text
Truthy(text) == text = "text"

\* matched_skills = set(resume_skills) & set(jd_skills)
MatchedSkills(rs, js) == ToSet(rs) \cap ToSet(js)

\* MissingSkills with the operands of the difference swapped
MissingSkillsSwapped(rs, js) == ToSet(rs) \ ToSet(js)

\* missing_skills = set(jd_skills) - set(resume_skills)
MissingSkills(rs, js) == ToSet(js) \ ToSet(rs)

\* extra_skills = set(resume_skills) - set(jd_skills)
ExtraSkills(rs, js) == ToSet(rs) \ ToSet(js)

\* match_score = len(matched_skills) / len(jd_skills) * 100 if jd_skills else 0
MatchScore(matched, js) ==
    IF js # <<>> THEN [num |-> 100 * Cardinality(matched), den |-> Len(js)]
    ELSE [num |-> 0, den |-> 1]

\* if resume_text and jd_text and resume_skills and jd_skills:
MatchGuard(rt, jt, rs, js) ==
    Truthy(rt) /\ Truthy(jt) /\ rs # <<>> /\ js # <<>>

\* value of match_score before the block has assigned it
NoScoreYet == [num |-> 0, den |-> 1]

\* ================================================ fit classifier adapter
\* fit_classifier.py is not part of the available sources; the adapter is
\* modelled from its contract (specification section 4.4) and from the
\* keys and labels its caller reads (app/main.py 934-1000).

\* the labels, in tie-break priority order
Labels == <<"Good Fit", "Potential Fit", "No Fit">>
LabelSet == ToSet(Labels)

\* probabilities a model can return, in thousandths: every 3-way
\* distribution over multiples of a quarter
ModelDistributions ==
    {d \in [LabelSet -> {0, 250, 500, 750, 1000}] :
        d["Good Fit"] + d["Potential Fit"] + d["No Fit"] = 1000}

MaxProb(d) == CHOOSE m \in {d[l] : l \in LabelSet} :
                  \A l \in LabelSet : d[l] <= m

\* ArgMax with ties broken in the reverse order
ArgMaxLastWins(d) ==
    LET i == CHOOSE k \in 1..3 :
                 /\ d[Labels[k]] = MaxProb(d)
                 /\ \A j \in (k + 1)..3 : d[Labels[j]] # MaxProb(d)
    IN  Labels[i]

\* argmax with ties broken Good Fit > Potential Fit > No Fit
ArgMax(d) ==
    LET i == CHOOSE k \in 1..3 :
                 /\ d[Labels[k]] = MaxProb(d)
                 /\ \A j \in 1..(k - 1) : d[Labels[j]] # MaxProb(d)
    IN  Labels[i]

\* fallback thresholds on match_score = num/den
FallbackPrediction(score) ==
    IF score.num >= 70 * score.den THEN "Good Fit"
    ELSE IF score.num >= 40 * score.den THEN "Potential Fit"
    ELSE "No Fit"

\* FallbackConfidence without the clip
FallbackConfidenceUnclipped(score) ==
    LET d70 == Abs(20 * score.num - 1400 * score.den) \div score.den
        d40 == Abs(20 * score.num - 800 * score.den) \div score.den
    IN  500 + Min(d70, d40)

\* 0.5 + distance to the nearest threshold / 50, clipped to [0.5, 0.95]
FallbackConfidence(score) ==
    LET d70 == Abs(20 * score.num - 1400 * score.den) \div score.den
        d40 == Abs(20 * score.num - 800 * score.den) \div score.den
    IN  Max(500, Min(950, 500 + Min(d70, d40)))

\* the prediction carries the confidence, the two other labels share the rest
FallbackProbabilities(pred, conf) ==
    LET others == SelectSeq(Labels, LAMBDA l : l # pred)
        half == (1000 - conf) \div 2
    IN  [l \in LabelSet |->
            IF l = pred THEN conf
            ELSE IF l = others[1] THEN half
            ELSE 1000 - conf - half]

FallbackVerdict(score) ==
    LET pred == FallbackPrediction(score)
        conf == FallbackConfidence(score)
    IN  [prediction |-> pred,
         confidence |-> conf,
         probabilities |-> FallbackProbabilities(pred, conf),
         model_type |-> "fallback"]

PrimaryVerdict(dist) ==
    [prediction |-> ArgMax(dist),
     confidence |-> MaxProb(dist),
     probabilities |-> dist,
     model_type |-> "advanced_ml"]

\* predict_fit that lets the exception of a failed inference escape
predict_fit_propagating(loaded, throws, dist, score) ==
    IF loaded /\ throws
    THEN [raised |-> TRUE, verdict |-> FallbackVerdict(score)]
    ELSE IF loaded
    THEN [raised |-> FALSE, verdict |-> PrimaryVerdict(dist)]
    ELSE [raised |-> FALSE, verdict |-> FallbackVerdict(score)]

\* loaded: the model was loaded at start; throws: inference throws in this
\* call; dist: what inference returns when it does not throw
predict_fit(loaded, throws, dist, score) ==
    IF loaded /\ ~throws
    THEN [raised |-> FALSE, verdict |-> PrimaryVerdict(dist)]
    ELSE [raised |-> FALSE, verdict |-> FallbackVerdict(score)]

NoVerdict == [none |-> TRUE]

\* ------------------------------------------------------ the page script
\* the documents are uploaded and the extractors' output for them is fixed;
\* a document without text has no skills extracted (the name stays unbound
\* and line 815 never reads it)
InitMatch ==
    /\ resume_text \in TextKinds
    /\ jd_text \in TextKinds
    /\ resume_skills \in
          IF Truthy(resume_text) THEN SeqsUpTo(Skills, MaxSkills) ELSE {<<>>}
    /\ jd_skills \in
          IF Truthy(jd_text) THEN SeqsUpTo(Skills, MaxSkills) ELSE {<<>>}
    /\ model_loaded \in BOOLEAN
    /\ match_ran = FALSE
    /\ matched_skills = {}
    /\ missing_skills = {}
    /\ extra_skills = {}
    /\ match_score = NoScoreYet
    /\ result = NoVerdict
    /\ fit_raised = FALSE
    /\ inference_threw = FALSE
    /\ page_ran = FALSE

\* one run of the script from line 701 to the fit assessment (line 937)
RunPage ==
    \E throws \in BOOLEAN, dist \in ModelDistributions :
        LET ran == MatchGuard(resume_text, jd_text, resume_skills, jd_skills)
            matched == MatchedSkills(resume_skills, jd_skills)
            score == MatchScore(matched, jd_skills)
            fit == predict_fit(model_loaded, throws, dist, score)
        IN  /\ page_ran' = TRUE
            /\ match_ran' = ran
            /\ matched_skills' = IF ran THEN matched ELSE {}
            /\ missing_skills' =
                  IF ran THEN MissingSkills(resume_skills, jd_skills) ELSE {}
            /\ extra_skills' =
                  IF ran THEN ExtraSkills(resume_skills, jd_skills) ELSE {}
            /\ match_score' = IF ran THEN score ELSE NoScoreYet
            /\ inference_threw' = (ran /\ model_loaded /\ throws)
            /\ fit_raised' = (ran /\ fit.raised)
            /\ result' = IF ran /\ ~fit.raised THEN fit.verdict ELSE NoVerdict
            /\ UNCHANGED <<resume_text, jd_text, resume_skills, jd_skills,
                           model_loaded>>


\* ===================================================== skill extraction
\* The document analysis of app/main.py 164-176 and 722-813.  skills.py and
\* ner_skill_extractor.py are not part of the available sources: what the
\* two extractors return for a text is an input of the model.
VARIABLES
    spacy_installed,     \* 'import spacy' succeeds
    ner_model_installed, \* spacy.load("en_core_web_sm") succeeds
    use_ner,             \* the flag of lines 164-176
    lexicon_out,         \* per document: what extract_skills returns for it
    ner_failed,          \* per document: the NER strategy was not available
                         \* or raised during the extraction
    extracted,           \* per document: its skills name has been assigned
    notice,              \* per document: the message of its analysis tab
    extract_raised,      \* an exception of the extraction left the script
    analysed             \* the document analysis has run

extractVars == <<spacy_installed, ner_model_installed, use_ner, lexicon_out,
                 ner_failed, extracted, notice, extract_raised, analysed>>

Docs == {"resume", "jd"}

\* results extract_skills_ner can return when it does not raise
NerOutputs == {<<>>, <<"python">>, <<"sql", "aws">>}

\* the outcome of one call of extract_skills_ner: a result or an exception
NerOutcomes == {[raises |-> TRUE, skills |-> <<>>]}
                 \cup {[raises |-> FALSE, skills |-> o] : o \in NerOutputs}

\* lines 164-176: use_ner stays True only if spaCy imports and the model loads
UseNer(spacy, model) == spacy /\ model

\* ExtractSkillsAt that gives up with no skills when the NER call raises
ExtractSkillsAtNoFallback(use, outcome, lex) ==
    IF use THEN
        IF outcome.raises
        THEN [raised |-> FALSE, skills |-> <<>>, ner_failed |-> TRUE]
        ELSE [raised |-> FALSE, skills |-> outcome.skills,
              ner_failed |-> FALSE]
    ELSE [raised |-> FALSE, skills |-> lex, ner_failed |-> TRUE]

\* lines 748-755 and 793-800: NER inside try/except Exception, the lexicon
\* extractor in the handler and in the else branch
ExtractSkillsAt(use, outcome, lex) ==
    IF use THEN
        IF outcome.raises
        THEN [raised |-> FALSE, skills |-> lex, ner_failed |-> TRUE]
        ELSE [raised |-> FALSE, skills |-> outcome.skills,
              ner_failed |-> FALSE]
    ELSE [raised |-> FALSE, skills |-> lex, ner_failed |-> TRUE]

\* the message of a document's tab: lines 761-772 and 802-813; "none" when
\* the whole section is skipped by line 722
TabNotice(section, text, skills) ==
    IF ~section THEN "none"
    ELSE IF ~Truthy(text) THEN "upload"
    ELSE IF skills # <<>> THEN "found"
    ELSE "no_skills"

ExtractIdle ==
    /\ spacy_installed = FALSE
    /\ ner_model_installed = FALSE
    /\ use_ner = FALSE
    /\ lexicon_out = [d \in Docs |-> <<>>]
    /\ ner_failed = [d \in Docs |-> FALSE]
    /\ extracted = [d \in Docs |-> FALSE]
    /\ notice = [d \in Docs |-> "none"]
    /\ extract_raised = FALSE
    /\ analysed = FALSE

\* the uploaded documents, the installed NLP packages and the lexicon
\* extractor's result for each text; nothing has been analysed yet
InitExtract ==
    /\ resume_text \in TextKinds
    /\ jd_text \in TextKinds
    /\ spacy_installed \in BOOLEAN
    /\ ner_model_installed \in BOOLEAN
    /\ lexicon_out \in [Docs -> SeqsUpTo(Skills, MaxSkills)]
    /\ Truthy(resume_text) \/ lexicon_out["resume"] = <<>>
    /\ Truthy(jd_text) \/ lexicon_out["jd"] = <<>>
    /\ use_ner = FALSE
    /\ ner_failed = [d \in Docs |-> FALSE]
    /\ extracted = [d \in Docs |-> FALSE]
    /\ notice = [d \in Docs |-> "none"]
    /\ extract_raised = FALSE
    /\ analysed = FALSE
    /\ resume_skills = <<>>
    /\ jd_skills = <<>>

\* one run of the script from line 164 to line 813
AnalyzeDocuments ==
    /\ ~analysed
    /\ \E ro \in NerOutcomes, jo \in NerOutcomes :
        LET use == UseNer(spacy_installed, ner_model_installed)
            section == Truthy(resume_text) \/ Truthy(jd_text)
            r == ExtractSkillsAt(use, ro, lexicon_out["resume"])
            j == ExtractSkillsAt(use, jo, lexicon_out["jd"])
            rdone == Truthy(resume_text) /\ ~r.raised
            \* the job description tab is reached only if the resume tab
            \* did not end the script
            jreached == ~(Truthy(resume_text) /\ r.raised)
            jdone == jreached /\ Truthy(jd_text) /\ ~j.raised
        IN  /\ use_ner' = use
            /\ analysed' = TRUE
            /\ resume_skills' = IF rdone THEN r.skills ELSE <<>>
            /\ jd_skills' = IF jdone THEN j.skills ELSE <<>>
            /\ extracted' = [d \in Docs |-> IF d = "resume" THEN rdone
                                            ELSE jdone]
            /\ ner_failed' =
                 [d \in Docs |->
                    IF d = "resume" THEN Truthy(resume_text) /\ r.ner_failed
                    ELSE jreached /\ Truthy(jd_text) /\ j.ner_failed]
            /\ extract_raised' =
                 \/ Truthy(resume_text) /\ r.raised
                 \/ jreached /\ Truthy(jd_text) /\ j.raised
            /\ notice' =
                 [d \in Docs |->
                    IF d = "resume"
                    THEN IF Truthy(resume_text) /\ r.raised THEN "none"
                         ELSE TabNotice(section, resume_text, r.skills)
                    ELSE IF ~jdone /\ Truthy(jd_text) THEN "none"
                         ELSE TabNotice(section, jd_text, j.skills)]
    /\ UNCHANGED <<resume_text, jd_text, spacy_installed,
                   ner_model_installed, lexicon_out>>


\* ============================================ interview practice session
\* st.session_state of the interview section (app/main.py 1720-1942).  Every
\* action is one click followed by the rerun of the script that it triggers.
VARIABLES
    interview_questions,       \* number of questions held; 0: None or empty
    current_question_index,    \* 0-based
    interview_evaluations,     \* overall_score (or NoScore) per evaluation,
                               \* in the order of the appends
    evaluated_questions,       \* per evaluation: the index of the question
                               \* whose answer it evaluates (not program state)
    readiness_shown            \* the assessment displayed by the last rerun

sessionVars == <<interview_questions, current_question_index,
                 interview_evaluations, evaluated_questions, readiness_shown>>

\* overall_score values evaluate_answer returns in the model: the fallback's
\* 55 and 85 and an LLM answer without the key
SessionScores == {NoScore, 55, 85}

\* DisplayedReadiness that assesses only the newest evaluation
DisplayedReadinessNewestOnly(questions, evals) ==
    IF questions > 0 /\ evals # <<>>
    THEN calculate_interview_readiness_score(<<evals[Len(evals)]>>)
    ELSE NoReadiness

\* lines 1762 and 1883-1888: inside the session block, when evaluations
\* exist, the assessment is computed from the whole list
DisplayedReadiness(questions, evals) ==
    IF questions > 0 /\ evals # <<>>
    THEN calculate_interview_readiness_score(evals)
    ELSE NoReadiness

SessionIdle ==
    /\ interview_questions = 0
    /\ current_question_index = 0
    /\ interview_evaluations = <<>>
    /\ evaluated_questions = <<>>
    /\ readiness_shown = NoReadiness

\* lines 1720-1729
InitSession == SessionIdle

\* lines 1744-1759: n questions survive the type and difficulty filters
GenerateQuestions ==
    \E n \in 0..MaxQuestions :
        /\ interview_questions' = n
        /\ current_question_index' = 0
        /\ interview_evaluations' = <<>>
        /\ evaluated_questions' = <<>>
        /\ readiness_shown' = DisplayedReadiness(n, <<>>)

\* the practice interface of lines 1769-1828 is shown
PracticeShown ==
    /\ interview_questions > 0
    /\ current_question_index < interview_questions

\* lines 1806-1808
PreviousQuestion ==
    /\ PracticeShown
    /\ current_question_index # 0
    /\ current_question_index' = Max(0, current_question_index - 1)
    /\ readiness_shown' =
         DisplayedReadiness(interview_questions, interview_evaluations)
    /\ UNCHANGED <<interview_questions, interview_evaluations,
                   evaluated_questions>>

\* lines 1811-1813
NextQuestion ==
    /\ PracticeShown
    /\ ~(current_question_index >= interview_questions - 1)
    /\ current_question_index' =
         Min(interview_questions - 1, current_question_index + 1)
    /\ readiness_shown' =
         DisplayedReadiness(interview_questions, interview_evaluations)
    /\ UNCHANGED <<interview_questions, interview_evaluations,
                   evaluated_questions>>

\* lines 1826-1828
SkipQuestion ==
    /\ PracticeShown
    /\ current_question_index' =
         Min(interview_questions - 1, current_question_index + 1)
    /\ readiness_shown' =
         DisplayedReadiness(interview_questions, interview_evaluations)
    /\ UNCHANGED <<interview_questions, interview_evaluations,
                   evaluated_questions>>

\* lines 1816-1823, with a non-blank answer typed in
EvaluateAnswer ==
    /\ PracticeShown
    /\ Len(interview_evaluations) < MaxEvals
    /\ \E score \in SessionScores :
          /\ interview_evaluations' = Append(interview_evaluations, score)
          /\ evaluated_questions' =
               Append(evaluated_questions, current_question_index)
          /\ readiness_shown' =
               DisplayedReadiness(interview_questions,
                                  Append(interview_evaluations, score))
    /\ UNCHANGED <<interview_questions, current_question_index>>

\* lines 1934-1942
ResetSession ==
    /\ interview_questions > 0
    /\ interview_questions' = 0
    /\ current_question_index' = 0
    /\ interview_evaluations' = <<>>
    /\ evaluated_questions' = <<>>
    /\ readiness_shown' = DisplayedReadiness(0, <<>>)


\* ================================================= downstream generators
\* The sections below the match (app/main.py 1015-1759) hand skills to the
\* content generators.  Two runs of the application over the same documents
\* are modelled side by side; each run is a process of its own, with its own
\* string hash seed and therefore its own iteration order of a set.
VARIABLES
    hash_order,          \* per run: the order in which a set is iterated
    generator_invoked,   \* per run: the generator of the last click, or "none"
    target_skills,       \* per run: the skills passed to that generator
    skills_shown         \* per run: the missing skills as displayed

downstreamVars == <<hash_order, generator_invoked, target_skills,
                    skills_shown>>

Runs == {1, 2}

\* skill names in the order of Python's string comparison
SkillOrder == <<"aws", "docker", "excel", "git", "java", "python", "sql">>

\* resume and job description skill lists of the two documents
ResumeLists == {<<"python">>, <<"python", "excel">>}
JobLists ==
    {<<"python">>, <<"sql", "python", "aws">>,
     <<"aws", "docker", "excel", "git", "java", "python", "sql">>}

Rotate(seq, k) ==
    [i \in 1..Len(seq) |-> seq[((i + k - 1) % Len(seq)) + 1]]

\* iteration orders of a set of strings: they follow the hashes of the
\* strings, which change with the hash seed of the process.  The orders
\* modelled are the rotations of one listing; a seed can give any order.
IterationOrders == {Rotate(SkillOrder, k) : k \in 0..(Len(SkillOrder) - 1)}

\* list(s) of a set s under an iteration order
ListOf(s, order) == SelectSeq(order, LAMBDA x : x \in s)

\* sorted(s), lines 889, 900, 911
Sorted(s) == ListOf(s, SkillOrder)

\* seq[:n]
Prefix(seq, n) == SubSeq(seq, 1, Min(n, Len(seq)))

\* lines 1081 and 1107
CoursePrefix == 8
\* lines 1453, 1500, 1535; list(resume_skills)[:5] at 1081 and 1107
NetworkPrefix == 5

Generators ==
    {"resume_enhancement", "cover_letter", "course_suggestions",
     "mentors", "interview_questions"}

\* the skills argument each call site builds
GeneratorArgument(gen, order, resume, matched, missing) ==
    CASE gen = "resume_enhancement" -> ListOf(missing, order)
      [] gen = "cover_letter" -> ListOf(matched \cup missing, order)
      [] gen = "course_suggestions" ->
            IF missing # {} THEN Prefix(ListOf(missing, order), CoursePrefix)
            ELSE Prefix(resume, NetworkPrefix)
      [] gen = "mentors" ->
            IF missing # {} THEN Prefix(ListOf(missing, order), NetworkPrefix)
            ELSE Prefix(resume, NetworkPrefix)
      [] gen = "interview_questions" -> resume

\* SetAfterCall when the callee is handed the set object itself and
\* consumes the skills it uses
SetAfterCallAliased(held, passed) == held \ ToSet(passed)

\* the set the page holds once the generator has returned: the callee was
\* given a new list (list(...) at every call site) and only slices and
\* iterates it, so nothing it does reaches the set
SetAfterCall(held, passed) == held

DownstreamIdle ==
    /\ hash_order = [r \in Runs |-> SkillOrder]
    /\ generator_invoked = [r \in Runs |-> "none"]
    /\ target_skills = [r \in Runs |-> <<>>]
    /\ skills_shown = [r \in Runs |-> <<>>]

\* both runs have shown the page for the same two documents (the guard of
\* line 815 held, lines 819-822 ran); no generator button was clicked yet
InitGenerators ==
    /\ resume_text = "text"
    /\ jd_text = "text"
    /\ resume_skills \in ResumeLists
    /\ jd_skills \in JobLists
    /\ match_ran = TRUE
    /\ matched_skills = MatchedSkills(resume_skills, jd_skills)
    /\ missing_skills = MissingSkills(resume_skills, jd_skills)
    /\ extra_skills = ExtraSkills(resume_skills, jd_skills)
    /\ match_score =
         MatchScore(MatchedSkills(resume_skills, jd_skills), jd_skills)
    /\ hash_order \in [Runs -> IterationOrders]
    /\ generator_invoked = [r \in Runs |-> "none"]
    /\ target_skills = [r \in Runs |-> <<>>]
    /\ skills_shown =
         [r \in Runs |-> Sorted(MissingSkills(resume_skills, jd_skills))]

\* a click on a generator's button in one run: the script reruns, computes
\* the match again, displays it and calls the generator
InvokeGenerator ==
    \E r \in Runs, gen \in Generators :
        LET matched == MatchedSkills(resume_skills, jd_skills)
            missing == MissingSkills(resume_skills, jd_skills)
            extra == ExtraSkills(resume_skills, jd_skills)
            passed == GeneratorArgument(gen, hash_order[r], resume_skills,
                                        matched, missing)
        IN  /\ generator_invoked' = [generator_invoked EXCEPT ![r] = gen]
            /\ target_skills' = [target_skills EXCEPT ![r] = passed]
            /\ skills_shown' = [skills_shown EXCEPT ![r] = Sorted(missing)]
            /\ matched_skills' = SetAfterCall(matched, passed)
            /\ missing_skills' = SetAfterCall(missing, passed)
            /\ extra_skills' = SetAfterCall(extra, passed)
            /\ UNCHANGED <<resume_text, jd_text, resume_skills, jd_skills,
                           match_ran, match_score, hash_order>>


\* ============================================== concurrent invocations
\* Two threads (two Streamlit sessions) call the core functions at the same
\* time; a call proceeds in steps over the local variables of its own frame.
VARIABLES
    thread_call,     \* per thread: the function called and its arguments
    thread_pc,       \* per thread: "ready", "running" or "returned"
    locals,          \* per frame: the local variables of the call
    thread_result,   \* per thread: the value returned
    overlapped       \* a thread has taken a step while the other call was
                     \* running (not program state)

threadVars == <<thread_call, thread_pc, locals, thread_result, overlapped>>

Threads == {1, 2}

\* the calls a thread makes: the readiness aggregator over a list of
\* evaluations, or the match of lines 819-822 over two skill lists
Calls ==
    {[kind |-> "readiness", evaluations |-> e, resume |-> <<>>, jd |-> <<>>] :
        e \in {<<>>, <<85>>, <<55, 100>>, <<NoScore, 85, 70>>}}
    \cup
    {[kind |-> "match", evaluations |-> <<>>, resume |-> d[1], jd |-> d[2]] :
        d \in {<< <<"python">>, <<"python", "sql">> >>,
               << <<"sql", "aws">>, <<"sql">> >>}}

\* FrameOf with one set of variables shared by all calls
FrameOfShared(t) == 1

\* the frame holding the local variables of thread t's call: total_score and
\* avg_score (interview_prep.py 262-264) and matched_skills, missing_skills,
\* extra_skills (app/main.py 819-821, names of the session's own script run)
\* are created by each call; neither function reads or writes a global
FrameOf(t) == t

EmptyLocals ==
    [total_score |-> 0, index |-> 0, matched |-> {}, missing |-> {},
     extra |-> {}]

NoResult == [none |-> TRUE]

\* the dict built at interview_prep.py 264-283 from the locals
ReadinessFromTotal(total_score, n) ==
    LET level == ReadinessLevel(total_score, n)
    IN  [overall_score |-> Round1(total_score, n),
         readiness_level |-> level,
         recommendations |-> Recommendations(level),
         total_questions |-> n]

ThreadsIdle ==
    /\ thread_call = [t \in Threads |->
          [kind |-> "readiness", evaluations |-> <<>>, resume |-> <<>>,
           jd |-> <<>>]]
    /\ thread_pc = [t \in Threads |-> "ready"]
    /\ locals = [f \in Threads |-> EmptyLocals]
    /\ thread_result = [t \in Threads |-> NoResult]
    /\ overlapped = FALSE

InitCalls ==
    /\ thread_call \in [Threads -> Calls]
    /\ thread_pc = [t \in Threads |-> "ready"]
    /\ locals = [f \in Threads |-> EmptyLocals]
    /\ thread_result = [t \in Threads |-> NoResult]
    /\ overlapped = FALSE

OtherRunning(t) == \E u \in Threads \ {t} : thread_pc[u] = "running"

\* the call is entered: its locals are created
EnterCall(t) ==
    /\ thread_pc[t] = "ready"
    /\ thread_pc' = [thread_pc EXCEPT ![t] = "running"]
    /\ locals' = [locals EXCEPT ![FrameOf(t)] = EmptyLocals]
    /\ overlapped' = (overlapped \/ OtherRunning(t))
    /\ UNCHANGED <<thread_call, thread_result>>

\* one iteration of sum(...) at interview_prep.py 262
AddScore(t) ==
    LET f == FrameOf(t)
        evals == thread_call[t].evaluations
    IN  /\ thread_pc[t] = "running"
        /\ thread_call[t].kind = "readiness"
        /\ locals[f].index < Len(evals)
        /\ locals' = [locals EXCEPT
              ![f].total_score =
                  @ + GetOverallScore(evals[locals[f].index + 1]),
              ![f].index = @ + 1]
        /\ overlapped' = (overlapped \/ OtherRunning(t))
        /\ UNCHANGED <<thread_call, thread_pc, thread_result>>

\* interview_prep.py 255-260 (empty list) and 264-283
ReturnReadiness(t) ==
    LET f == FrameOf(t)
        evals == thread_call[t].evaluations
    IN  /\ thread_pc[t] = "running"
        /\ thread_call[t].kind = "readiness"
        /\ locals[f].index >= Len(evals)
        /\ thread_result' = [thread_result EXCEPT ![t] =
              IF evals = <<>>
              THEN [readiness |-> calculate_interview_readiness_score(<<>>)]
              ELSE [readiness |->
                      ReadinessFromTotal(locals[f].total_score, Len(evals))]]
        /\ thread_pc' = [thread_pc EXCEPT ![t] = "returned"]
        /\ overlapped' = (overlapped \/ OtherRunning(t))
        /\ UNCHANGED <<thread_call, locals>>

\* app/main.py 819
Intersect(t) ==
    LET f == FrameOf(t)
    IN  /\ thread_pc[t] = "running"
        /\ thread_call[t].kind = "match"
        /\ locals[f].index = 0
        /\ locals' = [locals EXCEPT
              ![f].matched =
                  MatchedSkills(thread_call[t].resume, thread_call[t].jd),
              ![f].index = 1]
        /\ overlapped' = (overlapped \/ OtherRunning(t))
        /\ UNCHANGED <<thread_call, thread_pc, thread_result>>

\* app/main.py 820-821
Differences(t) ==
    LET f == FrameOf(t)
    IN  /\ thread_pc[t] = "running"
        /\ thread_call[t].kind = "match"
        /\ locals[f].index = 1
        /\ locals' = [locals EXCEPT
              ![f].missing =
                  MissingSkills(thread_call[t].resume, thread_call[t].jd),
              ![f].extra =
                  ExtraSkills(thread_call[t].resume, thread_call[t].jd),
              ![f].index = 2]
        /\ overlapped' = (overlapped \/ OtherRunning(t))
        /\ UNCHANGED <<thread_call, thread_pc, thread_result>>

\* app/main.py 822
ReturnMatch(t) ==
    LET f == FrameOf(t)
    IN  /\ thread_pc[t] = "running"
        /\ thread_call[t].kind = "match"
        /\ locals[f].index >= 2
        /\ thread_result' = [thread_result EXCEPT ![t] =
              [matched |-> locals[f].matched,
               missing |-> locals[f].missing,
               extra |-> locals[f].extra,
               score |-> MatchScore(locals[f].matched, thread_call[t].jd)]]
        /\ thread_pc' = [thread_pc EXCEPT ![t] = "returned"]
        /\ overlapped' = (overlapped \/ OtherRunning(t))
        /\ UNCHANGED <<thread_call, locals>>

\* what the call returns when nothing else runs
ResultAlone(call) ==
    IF call.kind = "readiness"
    THEN [readiness |-> calculate_interview_readiness_score(call.evaluations)]
    ELSE [matched |-> MatchedSkills(call.resume, call.jd),
          missing |-> MissingSkills(call.resume, call.jd),
          extra |-> ExtraSkills(call.resume, call.jd),
          score |-> MatchScore(MatchedSkills(call.resume, call.jd), call.jd)]


\* ======================================================= local LLM calls
\* call_local_llama and enhance_resume_section (src/local_llm.py).  A string
\* is modelled by its pieces in order, so that startswith("Error:") is a
\* test on the first piece; "" is <<>>.
VARIABLES
    available_cache,   \* cached result of is_ollama_available: "unset",
                       \* "up" or "down"
    llm_pc,            \* position in call_local_llama
    attempt,           \* the loop variable of line 114
    requests_sent,     \* POSTs to /api/generate sent by the current call
    checks_passed,     \* both checks of lines 108-112 succeeded in this call
    last_failure,      \* the exception of the latest request, or "none"
    resent_after,      \* exceptions after which this call sent a request
    llm_failure,       \* why the current call failed, or "none"
    llm_result,        \* the string call_local_llama returned
    llm_raised,        \* an exception left call_local_llama
    enhance_pc,        \* position in enhance_resume_section
    enhance_args,      \* its arguments, as far as the fallback reads them
    enhance_result,    \* the string enhance_resume_section returned
    enhance_raised     \* an exception left enhance_resume_section

llmVars == <<available_cache, llm_pc, attempt, requests_sent, checks_passed,
             last_failure, resent_after, llm_failure, llm_result,
             llm_raised, enhance_pc, enhance_args, enhance_result,
             enhance_raised>>

\* MAX_RETRIES = int(os.getenv("LLM_MAX_RETRIES", "2"))
MAX_RETRIES == 2

\* exceptions requests.post raises
PostExceptions == {"timeout", "connection_error", "other_exception"}
\* answers of the server: a text, a JSON body with an error field, an empty
\* text, an HTTP error status, a body that is not JSON
PostAnswers == {"text", "error_field", "empty", "http_error", "bad_json"}

\* result.startswith("Error:")
StartsWithError(s) == s # <<>> /\ s[1] = "Error:"

\* lines 128-134 and, for raise_for_status and response.json(), the
\* handlers of lines 162-176
AnswerResult(answer) ==
    CASE answer = "text" -> <<"Professional Summary:", "add two lines">>
      [] answer = "error_field" -> <<"Error:", "model runner stopped">>
      [] answer = "empty" -> <<"Error:", "Empty response from model">>
      [] answer = "http_error" -> <<"Error:", "500 Server Error">>
      [] answer = "bad_json" -> <<"Error:", "Expecting value">>

\* the handlers of lines 148-176: every exception class is covered
HandlerResult(exc) ==
    CASE exc = "connection_error" ->
            <<"Error:", "Cannot connect to local Llama model.">>
      [] exc = "timeout" -> <<"Error:", "Request timed out.">>
      [] OTHER -> <<"Error:", exc>>

\* the arguments of enhance_resume_section that the fallback reads:
\* list(jd_keywords)[:6], in the iteration order of the process, and the
\* missing skills
EnhanceArgs ==
    [keywords : {<<>>, <<"python", "cloud">>, <<"cloud", "python">>},
     missing : {<<>>, <<"sql">>}]

NoArgs == [keywords |-> <<>>, missing |-> <<>>]

\* _generate_resume_improvements_fallback, lines 178-230
Fallback(args) ==
    <<"### AI-Powered Resume Enhancement Recommendations",
      "Immediate Action Items">>
    \o (IF args.keywords # <<>>
        THEN <<"Job-Specific Keywords to Include">> \o args.keywords
        ELSE <<>>)
    \o (IF args.missing # <<>>
        THEN <<"Address Missing Skills">> \o Prefix(args.missing, 5)
        ELSE <<>>)
    \o <<"Professional Formatting", "ATS Optimization", "Next Steps">>

\* EnhanceReturn without the test of line 265
EnhanceReturnUnchecked(answer, args) == answer

\* lines 264-267
EnhanceReturn(answer, args) ==
    IF StartsWithError(answer) THEN Fallback(args) ELSE answer

LLMIdle ==
    /\ available_cache = "unset"
    /\ llm_pc = "idle"
    /\ attempt = 0
    /\ requests_sent = 0
    /\ checks_passed = FALSE
    /\ last_failure = "none"
    /\ resent_after = {}
    /\ llm_failure = "none"
    /\ llm_result = <<>>
    /\ llm_raised = FALSE
    /\ enhance_pc = "idle"
    /\ enhance_args = NoArgs
    /\ enhance_result = <<>>
    /\ enhance_raised = FALSE

InitLLM == LLMIdle

\* is_ollama_available, lines 34-41, behind cache_resource: the first call
\* asks the server, later calls return the cached value
IsAvailable(cache, up) == IF cache = "unset" THEN up ELSE cache = "up"

NoCallRunning ==
    /\ llm_pc \in {"idle", "returned"}
    /\ enhance_pc \in {"idle", "returned"}

\* the entry of call_local_llama, lines 91-104
EnterLLM ==
    /\ llm_pc' = "checks"
    /\ attempt' = 0
    /\ requests_sent' = 0
    /\ checks_passed' = FALSE
    /\ last_failure' = "none"
    /\ resent_after' = {}
    /\ llm_failure' = "none"
    /\ llm_result' = <<>>
    /\ llm_raised' = FALSE

\* call_local_llama called by another generator
CallLLM ==
    /\ NoCallRunning
    /\ EnterLLM
    /\ enhance_pc' = "idle"
    /\ enhance_args' = NoArgs
    /\ enhance_result' = <<>>
    /\ UNCHANGED <<available_cache, enhance_raised>>

\* enhance_resume_section, lines 236-263
CallEnhance ==
    /\ NoCallRunning
    /\ \E up \in BOOLEAN, args \in EnhanceArgs :
          /\ available_cache' =
               IF IsAvailable(available_cache, up) THEN "up" ELSE "down"
          /\ enhance_args' = args
          /\ enhance_raised' = FALSE
          /\ IF IsAvailable(available_cache, up)
             THEN /\ EnterLLM
                  /\ enhance_pc' = "waiting"
                  /\ enhance_result' = <<>>
             ELSE /\ enhance_pc' = "returned"
                  /\ enhance_result' = Fallback(args)
                  /\ llm_pc' = "idle"
                  /\ llm_failure' = "unavailable"
                  /\ llm_result' = <<>>
                  /\ attempt' = 0
                  /\ requests_sent' = 0
                  /\ checks_passed' = FALSE
                  /\ last_failure' = "none"
                  /\ resent_after' = {}
                  /\ llm_raised' = FALSE

\* call_local_llama returns a string
ReturnLLM(value, failure) ==
    /\ llm_pc' = "returned"
    /\ llm_result' = value
    /\ llm_failure' = failure
    /\ llm_raised' = FALSE

\* lines 108-113
RunChecks ==
    /\ llm_pc = "checks"
    /\ \E up \in BOOLEAN, model_ok \in BOOLEAN :
          /\ available_cache' =
               IF IsAvailable(available_cache, up) THEN "up" ELSE "down"
          /\ IF ~IsAvailable(available_cache, up)
             THEN /\ ReturnLLM(<<"Error:", "Cannot connect to local Llama model.">>,
                               "unavailable")
                  /\ UNCHANGED <<attempt, checks_passed>>
             ELSE IF ~model_ok
             THEN /\ ReturnLLM(<<"Error:", "Model not available">>,
                               "model_missing")
                  /\ UNCHANGED <<attempt, checks_passed>>
             ELSE /\ llm_pc' = "first_post"
                  /\ attempt' = 1
                  /\ checks_passed' = TRUE
                  /\ UNCHANGED <<llm_result, llm_failure, llm_raised>>
    /\ UNCHANGED <<requests_sent, last_failure, resent_after, enhance_pc,
                   enhance_args, enhance_result, enhance_raised>>

\* a generate request goes out; it follows the latest failure, if any
SendRequest ==
    /\ requests_sent' = requests_sent + 1
    /\ resent_after' =
         IF last_failure = "none" THEN resent_after
         ELSE resent_after \cup {last_failure}

\* lines 125-134 after an answer arrived
TakeAnswer(answer) ==
    /\ ReturnLLM(AnswerResult(answer),
                 IF answer = "text" THEN "none" ELSE answer)
    /\ last_failure' = "none"
    /\ UNCHANGED attempt

\* lines 118-119: the request inside the spinner.  The spinner itself can
\* fail before the request is made (no Streamlit context).
FirstPost ==
    /\ llm_pc = "first_post"
    /\ \/ /\ llm_pc' = "second_post"
          /\ UNCHANGED <<requests_sent, resent_after, last_failure,
                         attempt, llm_result, llm_failure, llm_raised>>
       \/ \E exc \in PostExceptions :
             /\ SendRequest
             /\ last_failure' = exc
             /\ llm_pc' = "second_post"
             /\ UNCHANGED <<attempt, llm_result, llm_failure, llm_raised>>
       \/ \E answer \in PostAnswers :
             /\ SendRequest
             /\ TakeAnswer(answer)
    /\ UNCHANGED <<available_cache, checks_passed, enhance_pc, enhance_args,
                   enhance_result, enhance_raised>>

\* lines 120-123: the bare except catches whatever left the spinner block
\* and makes the request again; lines 136-146 handle what this one raises
SecondPost ==
    /\ llm_pc = "second_post"
    /\ SendRequest
    /\ \/ \E exc \in {"timeout", "connection_error"} :
             /\ last_failure' = exc
             /\ IF attempt <= MAX_RETRIES
                THEN /\ attempt' = attempt + 1
                     /\ llm_pc' = "first_post"
                     /\ UNCHANGED <<llm_result, llm_failure, llm_raised>>
                ELSE /\ ReturnLLM(HandlerResult(exc), exc)
                     /\ UNCHANGED attempt
       \/ /\ last_failure' = "other_exception"
          /\ ReturnLLM(HandlerResult("other_exception"), "other_exception")
          /\ UNCHANGED attempt
       \/ \E answer \in PostAnswers : TakeAnswer(answer)
    /\ UNCHANGED <<available_cache, checks_passed, enhance_pc, enhance_args,
                   enhance_result, enhance_raised>>

\* lines 264-267
FinishEnhance ==
    /\ enhance_pc = "waiting"
    /\ llm_pc = "returned"
    /\ enhance_pc' = "returned"
    /\ enhance_result' = EnhanceReturn(llm_result, enhance_args)
    /\ enhance_raised' = llm_raised
    /\ UNCHANGED <<available_cache, llm_pc, attempt, requests_sent,
                   checks_passed, last_failure, resent_after, llm_failure,
                   llm_result, llm_raised, enhance_args>>


\* ====================================================== skill normalizer
\* normalize(raw) -> Skill | None.  A string is the sequence of its
\* characters; None is NoSkill.
VARIABLES
    raw,             \* the raw string
    normalized,      \* normalize(raw)
    renormalized,    \* normalize(normalized)
    norm_stage       \* 0: nothing applied, 1: normalized, 2: renormalized

normVars == <<raw, normalized, renormalized, norm_stage>>

NoSkill == <<>>

RawAlphabet == {"j", "s", "J", " ", "!", "+", "1"}

\* raw strings longer than MaxRawLen that reach the second alias
LongRaw == {<<"R", "e", "a", "c", "t", "J", "S">>, <<"r", "e", "a", "c", "t">>, <<"J", "a", "v", "a", "S", "c", "r", "i", "p", "t">>}

RawStrings == SeqsUpTo(RawAlphabet, MaxRawLen) \cup LongRaw

Digits == {"0", "1", "2", "3", "4", "5", "6", "7", "8", "9"}
Separators == {"+", "#", "."}
Punctuation == {"!", ",", ";", ":", "(", ")", "-", "/", "+", "#", "."}

Lower(ch) ==
    CASE ch = "A" -> "a"
      [] ch = "C" -> "c"
      [] ch = "J" -> "j"
      [] ch = "R" -> "r"
      [] ch = "S" -> "s"
      [] OTHER -> ch

LowerCased(str) == [i \in 1..Len(str) |-> Lower(str[i])]

\* punctuation is removed; the separators +, # and . stay
StripPunctuation(str) ==
    SelectSeq(str, LAMBDA ch : ch \notin Punctuation \/ ch \in Separators)

\* runs of blanks become one blank; no blank stays at either end
RECURSIVE CollapseFrom(_, _)
CollapseFrom(str, i) ==
    IF i > Len(str) THEN <<>>
    ELSE IF /\ str[i] = " "
            /\ \/ i = 1
               \/ str[i - 1] = " "
               \/ \A j \in i..Len(str) : str[j] = " "
         THEN CollapseFrom(str, i + 1)
         ELSE <<str[i]>> \o CollapseFrom(str, i + 1)

CollapseWhitespace(str) == CollapseFrom(str, 1)

\* tokens shorter than 2 characters or purely numeric
Rejected(str) == Len(str) < 2 \/ \A i \in 1..Len(str) : str[i] \in Digits

\* AliasTable in which one alias leads to another alias
AliasTableChained ==
    (<<"j", "s">> :> <<"r", "e", "a", "c", "t", "j", "s">>)
    @@ (<<"r", "e", "a", "c", "t", "j", "s">> :> <<"r", "e", "a", "c", "t">>)

\* the fixed alias table: "js" -> "javascript", "reactjs" -> "react"
AliasTable ==
    (<<"j", "s">> :> <<"j", "a", "v", "a", "s", "c", "r", "i", "p", "t">>)
    @@ (<<"r", "e", "a", "c", "t", "j", "s">> :> <<"r", "e", "a", "c", "t">>)

\* one lookup
ResolveAlias(str) ==
    IF str \in DOMAIN AliasTable THEN AliasTable[str] ELSE str

normalize(str) ==
    LET cleaned ==
            CollapseWhitespace(StripPunctuation(LowerCased(str)))
    IN  IF Rejected(cleaned) THEN NoSkill ELSE ResolveAlias(cleaned)

NormIdle ==
    /\ raw = <<>>
    /\ normalized = NoSkill
    /\ renormalized = NoSkill
    /\ norm_stage = 0

InitNorm ==
    /\ raw \in RawStrings
    /\ normalized = NoSkill
    /\ renormalized = NoSkill
    /\ norm_stage = 0

Normalize ==
    /\ norm_stage = 0
    /\ normalized' = normalize(raw)
    /\ norm_stage' = 1
    /\ UNCHANGED <<raw, renormalized>>

\* the canonical form is handed to the normalizer again
Renormalize ==
    /\ norm_stage = 1
    /\ normalized # NoSkill
    /\ renormalized' = normalize(normalized)
    /\ norm_stage' = 2
    /\ UNCHANGED <<raw, normalized>>


\* ====================================================== progress tracker
\* ProgressTracker.update_activity and _update_streak
\* (src/progress_tracker.py 54-87).  Dates are day numbers.
VARIABLES
    today,            \* the calendar day of the clock
    streak_days,
    last_activity,    \* day of progress_data["last_activity"], or NoDay
    total_sessions,
    call_day,         \* day on which the latest update_activity was called
    prev_activity,    \* last_activity before the latest call (not program
    prev_streak       \* state), and streak_days before it

trackerVars == <<today, streak_days, last_activity, total_sessions,
                 call_day, prev_activity, prev_streak>>

\* "last_activity": None
NoDay == -1

\* lines 26-41: the progress data of a new user
TrackerIdle ==
    /\ today = 0
    /\ streak_days = 0
    /\ last_activity = NoDay
    /\ total_sessions = 0
    /\ call_day = NoDay
    /\ prev_activity = NoDay
    /\ prev_streak = 0

InitProgress == TrackerIdle

\* _update_streak, lines 70-87: recorded is progress_data["last_activity"]
\* as it reads it, now_day the date of datetime.now() at line 73
StreakAfter(streak, recorded, now_day) ==
    IF recorded # NoDay THEN
        IF now_day = recorded THEN streak
        ELSE IF now_day - recorded = 1 THEN streak + 1
        ELSE 1
    ELSE 1

\* midnight
DayPasses ==
    /\ today < MaxDay
    /\ today' = today + 1
    /\ UNCHANGED <<streak_days, last_activity, total_sessions, call_day,
                   prev_activity, prev_streak>>

\* update_activity, lines 54-68: line 59 records now() as last_activity,
\* then line 63 calls _update_streak, which reads the field again; midnight
\* may pass between the two readings of the clock
UpdateActivity ==
    /\ total_sessions < MaxSessions
    /\ \E midnight \in {0, 1} :
          /\ today + midnight <= MaxDay
          /\ last_activity' = today
          /\ today' = today + midnight
          /\ streak_days' =
               StreakAfter(streak_days, today, today + midnight)
    /\ total_sessions' = total_sessions + 1
    /\ call_day' = today
    /\ prev_activity' = last_activity
    /\ prev_streak' = streak_days


\* app/main.py 1831-1832: an evaluation is shown below the current question
\* when the list is longer than the current index
EvaluationShown ==
    /\ PracticeShown
    /\ interview_evaluations # <<>>
    /\ Len(interview_evaluations) > current_question_index

\* the position in the list of the evaluation shown,
\* interview_evaluations[current_index], counted from 1
ShownPosition == current_question_index + 1


\* ======================================================== course tracker
\* CourseTracker (src/course_tracker.py 67-123, 197-203).  progress_data is
\* the set of its entries, each with the key it is stored under; strings
\* are sequences of characters.
VARIABLES
    progress_data,    \* the tracked entries
    last_added        \* arguments and result of the latest add_course
                      \* (not program state)

courseVars == <<progress_data, last_added>>

\* course titles typed into the form and platforms
CourseTitles == {<<"a", " ", "b">>, <<"a", "_", "b">>, <<"b">>}
Platforms == {<<"p">>}

\* values of the status argument: three members of CourseStatus
\* (lines 13-18), and "none" for None
StatusArguments == {"none", "In Progress", "Completed", "Paused"}

\* values of the progress_percentage argument
ProgressInputs == {-10, 50, 120}

\* .replace(" ", "_").replace("/", "_")
ReplaceSeparators(str) ==
    [i \in 1..Len(str) |->
        IF str[i] = " " \/ str[i] = "/" THEN "_" ELSE str[i]]

\* _get_course_id, lines 67-69
GetCourseId(course_title, platform) ==
    ReplaceSeparators(platform \o <<"_">> \o course_title)

NoAdd == [none |-> TRUE]

TrackedIds == {e.id : e \in progress_data}

EntryOf(course_id) == CHOOSE e \in progress_data : e.id = course_id

CoursesIdle ==
    /\ progress_data = {}
    /\ last_added = NoAdd

\* no course_progress.json yet
InitCourseTracker == CoursesIdle

\* add_course, lines 71-85
AddCourse ==
    \E course_title \in CourseTitles, platform \in Platforms :
        LET course_id == GetCourseId(course_title, platform)
        IN  /\ progress_data' =
                 IF course_id \notin TrackedIds
                 THEN progress_data \cup
                        {[id |-> course_id,
                          course_title |-> course_title,
                          platform |-> platform,
                          status |-> "Not Started",
                          progress_percentage |-> 0]}
                 ELSE progress_data
            /\ last_added' = [course_title |-> course_title,
                              platform |-> platform,
                              course_id |-> course_id]

\* lines 98-104: the status argument
AfterStatus(course, status) ==
    IF status = "none" THEN course
    ELSE IF status = "Completed"
    THEN [course EXCEPT !.status = status, !.progress_percentage = 100]
    ELSE [course EXCEPT !.status = status]

\* lines 106-110: the progress_percentage argument
AfterPercentage(course, has_percentage, percentage) ==
    IF ~has_percentage THEN course
    ELSE LET clamped == Max(0, Min(100, percentage))
         IN  IF clamped = 100 /\ course.status # "Completed"
             THEN [course EXCEPT !.progress_percentage = clamped,
                                 !.status = "Completed"]
             ELSE [course EXCEPT !.progress_percentage = clamped]

\* update_progress, lines 87-123, for a tracked course
UpdateProgress ==
    \E course \in progress_data, status \in StatusArguments,
       has_percentage \in BOOLEAN, percentage \in ProgressInputs :
        /\ progress_data' =
             (progress_data \ {course}) \cup
             {AfterPercentage(AfterStatus(course, status),
                              has_percentage, percentage)}
        /\ UNCHANGED last_added

\* delete_course, lines 197-203
DeleteCourse ==
    \E course \in progress_data :
        /\ progress_data' = progress_data \ {course}
        /\ UNCHANGED last_added


\* ===================================================== answer evaluation
\* generate_interview_questions, evaluate_answer and generate_interview_tips
\* (src/interview_prep.py 15-246).  A question dict is a record whose DOMAIN
\* is its key set.
VARIABLES
    prep_stage,       \* "start", "generated", "evaluated" or "tips"
    llm_reachable,    \* the health check of the latest call answered 200
    llm_response,     \* what call_local_llama returned to the latest call
    question,         \* the question handed to evaluate_answer
    answer_words,     \* len(user_answer.split())
    evaluation,       \* what evaluate_answer returned
    evaluate_raised,  \* an exception left evaluate_answer
    tips              \* what generate_interview_tips returned

prepVars == <<prep_stage, llm_reachable, llm_response, question,
              answer_words, evaluation, evaluate_raised, tips>>

\* what call_local_llama returns to generate_interview_questions
QuestionResponses ==
    {"error_string", "no_json", "bad_json", "json_complete",
     "json_without_criteria", "json_question_only"}

\* what call_local_llama returns to evaluate_answer
EvaluationResponses ==
    {"error_string", "no_json", "bad_json", "json_evaluation", "json_other"}

\* word counts of the answer, around the thresholds of lines 194-202
WordCounts == {50, 51, 100, 101}

NoQuestion == [none |-> TRUE]
NoEvaluation == [none |-> TRUE]

\* _create_fallback_questions, lines 87-122: every base question has all keys
FallbackQuestions ==
    {[id |-> 1, type |-> "technical", category |-> "Programming",
      difficulty |-> "medium", question |-> "text", follow_up |-> "text",
      evaluation_criteria |-> <<"Technical depth">>,
      sample_answer_points |-> <<"Specific examples">>],
     [id |-> 2, type |-> "behavioral", category |-> "Problem Solving",
      difficulty |-> "medium", question |-> "text", follow_up |-> "text",
      evaluation_criteria |-> <<"Learning agility">>,
      sample_answer_points |-> <<"Learning strategy">>]}

\* the dicts of questions_data.get('questions', []), line 77: whatever the
\* model put into its JSON
ParsedQuestions(response) ==
    CASE response = "json_complete" ->
            {[id |-> 1, type |-> "technical", category |-> "Programming",
              difficulty |-> "hard", question |-> "text",
              follow_up |-> "text",
              evaluation_criteria |-> <<"Depth">>,
              sample_answer_points |-> <<"Examples">>]}
      [] response = "json_without_criteria" ->
            {[id |-> 1, type |-> "technical", category |-> "Programming",
              difficulty |-> "hard", question |-> "text"]}
      [] response = "json_question_only" -> {[question |-> "text"]}
      [] OTHER -> {}

\* generate_interview_questions, lines 63-85
generate_interview_questions(reachable, response) ==
    IF ~reachable THEN FallbackQuestions
    ELSE IF response \in {"error_string", "no_json", "bad_json"}
    THEN FallbackQuestions
    ELSE ParsedQuestions(response)

\* the keys the f-string of lines 128-166 reads
PromptKeys ==
    {"question", "type", "category", "difficulty", "evaluation_criteria"}

\* _create_fallback_evaluation, lines 189-217
FallbackEvaluation(words) ==
    IF words > 100 THEN [overall_score |-> 85, rating |-> "good"]
    ELSE IF words > 50 THEN [overall_score |-> 70, rating |-> "satisfactory"]
    ELSE [overall_score |-> 55, rating |-> "needs_improvement"]

\* json.loads of the model's answer, line 182
ParsedEvaluation(response) ==
    IF response = "json_evaluation"
    THEN [overall_score |-> 90, rating |-> "excellent"]
    ELSE [detailed_feedback |-> "text"]

\* evaluate_answer, lines 124-187: the prompt is built before the try
evaluate_answer(q, words, reachable, response) ==
    IF ~(PromptKeys \subseteq DOMAIN q)
    THEN [raised |-> TRUE, value |-> NoEvaluation]
    ELSE IF ~reachable
    THEN [raised |-> FALSE, value |-> FallbackEvaluation(words)]
    ELSE IF response \in {"error_string", "no_json", "bad_json"}
    THEN [raised |-> FALSE, value |-> FallbackEvaluation(words)]
    ELSE [raised |-> FALSE, value |-> ParsedEvaluation(response)]

\* what call_local_llama returns to generate_interview_tips
TipsResponses ==
    {<<"1.", "Technical preparation">>,
     <<"Error:", "Cannot connect to local Llama model.">>,
     <<"Error:", "Request timed out.">>}

\* generate_interview_tips, lines 219-246
generate_interview_tips(response) == response

PrepIdle ==
    /\ prep_stage = "start"
    /\ llm_reachable = FALSE
    /\ llm_response = "none"
    /\ question = NoQuestion
    /\ answer_words = 0
    /\ evaluation = NoEvaluation
    /\ evaluate_raised = FALSE
    /\ tips = <<>>

InitInterviewPrep == PrepIdle

\* app/main.py 1744-1759: questions are generated and one becomes current
GenerateForPractice ==
    /\ prep_stage \in {"start", "evaluated", "tips"}
    /\ \E reachable \in BOOLEAN, response \in QuestionResponses :
          /\ generate_interview_questions(reachable, response) # {}
          /\ llm_reachable' = reachable
          /\ llm_response' = IF reachable THEN response ELSE "none"
          /\ question' \in generate_interview_questions(reachable, response)
    /\ prep_stage' = "generated"
    /\ answer_words' = 0
    /\ evaluation' = NoEvaluation
    /\ evaluate_raised' = FALSE
    /\ UNCHANGED tips

\* app/main.py 1816-1819
EvaluateCurrent ==
    /\ prep_stage = "generated"
    /\ \E words \in WordCounts, reachable \in BOOLEAN,
          response \in EvaluationResponses :
          LET outcome == evaluate_answer(question, words, reachable, response)
          IN  /\ answer_words' = words
              /\ llm_reachable' = reachable
              /\ llm_response' = IF reachable THEN response ELSE "none"
              /\ evaluation' = outcome.value
              /\ evaluate_raised' = outcome.raised
    /\ prep_stage' = "evaluated"
    /\ UNCHANGED <<question, tips>>

\* app/main.py 1915-1924
GetTips ==
    /\ prep_stage \in {"start", "generated", "evaluated"}
    /\ \E response \in TipsResponses :
          /\ tips' = generate_interview_tips(response)
          /\ llm_reachable' = ~StartsWithError(response)
    /\ prep_stage' = "tips"
    /\ UNCHANGED <<llm_response, question, answer_words, evaluation,
                   evaluate_raised>>


\* ================================================ long practice sessions
\* Nothing bounds the number of evaluations of a session (app/main.py
\* 1816-1819 appends on every click).  The sessions drawn here score every
\* answer at a level threshold, the last one at or just below it.
LevelThresholds == {60, 70, 80, 90}

LongSessions ==
    {[i \in 1..n |-> IF i < n THEN b ELSE b - d] :
        n \in 1..MaxRun, b \in LevelThresholds, d \in {0, 1, 2}}

InitLongSessions ==
    /\ evaluations \in LongSessions
    /\ readiness = NoReadiness
    /\ assessed = FALSE


\* ===================================================== activity counters
\* The page script calls update_activity twice whenever it runs with a
\* resume uploaded (app/main.py 746-759); Streamlit runs the script again
\* on every interaction with a widget.
VARIABLES
    resume_present,    \* a resume file is in the uploader
    resumes_analyzed,  \* progress_data["resumes_analyzed"]
    skills_assessed,   \* progress_data["skills_assessed"]
    achievements,      \* ids of progress_data["achievements"]
    resumes_uploaded   \* resume files uploaded so far (not program state)

activityVars == <<resume_present, resumes_analyzed, skills_assessed,
                  achievements, resumes_uploaded>>

\* thresholds of the conditions at src/progress_tracker.py 111, 118, 125
FirstSessionAt == 1
SkillAssessorAt == 5
ResumeMasterAt == 3

\* _check_achievements, lines 89-102, for the counters this script changes
Earned(sessions, skills, resumes) ==
    (IF sessions >= FirstSessionAt THEN {"first_session"} ELSE {})
    \cup (IF skills >= SkillAssessorAt THEN {"skill_assessor"} ELSE {})
    \cup (IF resumes >= ResumeMasterAt THEN {"resume_master"} ELSE {})

ActivityIdle ==
    /\ resume_present = FALSE
    /\ resumes_analyzed = 0
    /\ skills_assessed = 0
    /\ achievements = {}
    /\ resumes_uploaded = 0

InitCounters == ActivityIdle /\ InitProgress

\* lines 746-759 in a run with resume text: update_activity is called for
\* "resumes_analyzed" and then for "skills_assessed" (both within one day)
AnalyseResume ==
    /\ resumes_analyzed < MaxAnalyses
    /\ resumes_analyzed' = resumes_analyzed + 1
    /\ skills_assessed' = skills_assessed + 1
    /\ total_sessions' = total_sessions + 2
    /\ last_activity' = today
    /\ streak_days' =
         StreakAfter(StreakAfter(streak_days, today, today), today, today)
    /\ call_day' = today
    /\ prev_activity' = today
    /\ prev_streak' = StreakAfter(streak_days, today, today)
    /\ achievements' =
         achievements \cup
         Earned(total_sessions + 2, skills_assessed + 1,
                resumes_analyzed + 1)
    /\ UNCHANGED today

\* a new resume file is put into the uploader; the script runs
UploadResume ==
    /\ resume_present' = TRUE
    /\ resumes_uploaded' = resumes_uploaded + 1
    /\ AnalyseResume

\* any other interaction (a button, a tab, a slider) while the same resume
\* stays uploaded; the script runs again
Interact ==
    /\ resume_present
    /\ AnalyseResume
    /\ UNCHANGED <<resume_present, resumes_uploaded>>

\* the resume is taken out of the uploader; the script runs without it
RemoveResume ==
    /\ resume_present
    /\ resume_present' = FALSE
    /\ UNCHANGED <<resumes_analyzed, skills_assessed, achievements,
                   resumes_uploaded, trackerVars>>


\* --------------------------------------------------- mentors and icebreakers
\* src/app/main.py 1451-1486 and src/src/ai_networking.py 294-376.  The page
\* is a script that Streamlit executes from the top, in a fresh namespace, on
\* every interaction; only st.session_state outlives a run, and at most one
\* button is True in a run.
VARIABLES
    net_stage,          \* "idle", "found", "asked" or "called"
    mentors,            \* st.session_state.mentors
    run_target_skills,  \* the name target_skills in the namespace of the run
    asked_mentor,       \* index of the mentor whose button was clicked, or 0
    icebreakers,        \* the list the last request produced
    icebreaker_raised   \* "none", or the exception that ended the request

networkVars == <<net_stage, mentors, run_target_skills, asked_mentor,
                 icebreakers, icebreaker_raised>>

\* a name no statement of the run has assigned
Unbound == "unbound"

\* the lists line 1453 can build, the empty one included
TargetLists == SeqsUpTo(Skills, MaxSkills)

\* str.title() of the skills of the model
Title(skill) ==
    CASE skill = "python" -> "Python"
      [] skill = "sql" -> "Sql"
      [] skill = "aws" -> "Aws"

\* lines 304-316: the mentor made for one skill
SkillMentor(skill) ==
    [mentor_name |-> <<"Senior", Title(skill), "Expert">>,
     title |-> <<"Senior", Title(skill), "Engineer">>,
     company |-> "Tech Company",
     expertise_areas |-> <<skill, "Leadership", "Career Growth">>,
     match_score |-> 85]

\* lines 319-344, match_score in hundredths
CrossFunctionalMentors ==
    << [mentor_name |-> <<"Sarah Johnson">>,
        title |-> <<"VP of Engineering">>,
        company |-> "Startup Inc.",
        expertise_areas |->
            <<"Leadership", "Career Growth", "Technical Strategy">>,
        match_score |-> 90],
       [mentor_name |-> <<"Mike Chen">>,
        title |-> <<"Principal Data Scientist">>,
        company |-> "Big Tech Corp",
        expertise_areas |-> <<"Data Science", "Machine Learning", "Research">>,
        match_score |-> 88] >>

\* list.sort(key=match_score, reverse=True) is stable: an element goes after
\* every element whose score is at least its own
RECURSIVE InsertByScore(_, _)
InsertByScore(sorted, m) ==
    IF sorted = <<>> THEN <<m>>
    ELSE IF Head(sorted).match_score >= m.match_score
         THEN <<Head(sorted)>> \o InsertByScore(Tail(sorted), m)
         ELSE <<m>> \o sorted

RECURSIVE SortByScore(_)
SortByScore(list) ==
    IF list = <<>> THEN <<>>
    ELSE InsertByScore(SortByScore(SubSeq(list, 1, Len(list) - 1)),
                       list[Len(list)])

\* mentors[:10], line 352
MentorLimit == 10

\* find_mentorship_opportunities, lines 294-352
find_mentorship_opportunities(skills) ==
    LET first == Prefix(skills, NetworkPrefix)
        made == [i \in 1..Len(first) |-> SkillMentor(first[i])]
    IN  Prefix(SortByScore(made \o CrossFunctionalMentors), MentorLimit)

\* list(set(a) & set(b)), line 1481, in the order of a
CommonSkills(a, b) == SelectSeq(a, LAMBDA x : x \in ToSet(b))

\* the five messages of lines 364-374
IcebreakerMessages(target_person, common_skills) ==
    [raised |-> "none",
     value |->
        << <<"Hi", target_person.mentor_name, Prefix(common_skills, 2),
             target_person.title>>,
           <<"Hello", target_person.title, target_person.company,
             Prefix(common_skills, 1)>>,
           <<"Hi", target_person.mentor_name, "tech",
             Prefix(common_skills, 1)>>,
           <<"Hello", Prefix(common_skills, 2)>>,
           <<"Hi", Len(common_skills), Prefix(common_skills, 1),
             target_person.company>> >>]

\* generate_networking_icebreakers, lines 354-376: common_skills[0] is read
\* at 366, 368 and 372 while the list is built
generate_networking_icebreakers(target_person, common_skills) ==
    IF common_skills = <<>>
    THEN [raised |-> "IndexError", value |-> <<>>]
    ELSE IcebreakerMessages(target_person, common_skills)

\* lines 1480-1486 in a run whose namespace binds target_skills to ts
IcebreakerHandler(ts, mentor) ==
    IF ts = Unbound
    THEN [raised |-> "NameError", value |-> <<>>]
    ELSE generate_networking_icebreakers(
             mentor, CommonSkills(ts, mentor.expertise_areas))

\* icebreakers[:3], line 1485
ShownIcebreakers == 3

NetworkIdle ==
    /\ net_stage = "idle"
    /\ mentors = <<>>
    /\ run_target_skills = Unbound
    /\ asked_mentor = 0
    /\ icebreakers = <<>>
    /\ icebreaker_raised = "none"

InitNetworking == NetworkIdle

\* a run with the Find Mentors button True, lines 1451-1458; the icebreaker
\* buttons drawn later in the same run are all False
FindMentors ==
    \E skills \in TargetLists :
        /\ run_target_skills' = skills
        /\ mentors' = find_mentorship_opportunities(skills)
        /\ net_stage' = "found"
        /\ asked_mentor' = 0
        /\ icebreakers' = <<>>
        /\ icebreaker_raised' = "none"

\* a run with the button of mentor i True, lines 1461-1486: a new run, in
\* which the body of 'if st.button(Find Mentors)' is skipped
GetIcebreaker ==
    /\ mentors # <<>>
    /\ \E i \in 1..Min(NetworkPrefix, Len(mentors)) :
          LET out == IcebreakerHandler(Unbound, mentors[i])
          IN  /\ run_target_skills' = Unbound
              /\ asked_mentor' = i
              /\ icebreakers' = Prefix(out.value, ShownIcebreakers)
              /\ icebreaker_raised' = out.raised
              /\ net_stage' = "asked"
              /\ UNCHANGED mentors

\* test_networking_features.py 44-51 and any other caller of the method: the
\* first mentor of a search and a list of skills
CallIcebreakers ==
    \E skills \in TargetLists, common \in TargetLists :
        LET found == find_mentorship_opportunities(skills)
            out == generate_networking_icebreakers(found[1], common)
        IN  /\ mentors' = found
            /\ asked_mentor' = 1
            /\ icebreakers' = out.value
            /\ icebreaker_raised' = out.raised
            /\ net_stage' = "called"
            /\ run_target_skills' = Unbound

\* ------------------------------------------------------- specifications

vars == <<matchVars, assessVars, extractVars, sessionVars, downstreamVars,
         threadVars, llmVars, normVars, trackerVars, courseVars, prepVars,
         activityVars, networkVars>>

AssessIdle ==
    /\ evaluations = <<>>
    /\ readiness = NoReadiness
    /\ assessed = FALSE

\* the variables of the fit assessment
FitIdle ==
    /\ model_loaded = FALSE
    /\ result = NoVerdict
    /\ fit_raised = FALSE
    /\ inference_threw = FALSE
    /\ page_ran = FALSE

\* the variables of the match and the fit assessment that the document
\* analysis does not assign
MatchResultIdle ==
    /\ match_ran = FALSE
    /\ matched_skills = {}
    /\ missing_skills = {}
    /\ extra_skills = {}
    /\ match_score = NoScoreYet
    /\ FitIdle

MatchIdle ==
    /\ resume_text = "none"
    /\ jd_text = "none"
    /\ resume_skills = <<>>
    /\ jd_skills = <<>>
    /\ MatchResultIdle

\* the page script over the uploaded documents
Init ==
    /\ InitMatch
    /\ AssessIdle
    /\ ExtractIdle
    /\ SessionIdle
    /\ DownstreamIdle
    /\ ThreadsIdle
    /\ LLMIdle
    /\ NormIdle
    /\ TrackerIdle
    /\ CoursesIdle
    /\ PrepIdle
    /\ ActivityIdle
    /\ NetworkIdle
Next ==
    /\ RunPage
    /\ UNCHANGED <<assessVars, extractVars, sessionVars, downstreamVars,
                   threadVars, llmVars, normVars, trackerVars, courseVars,
                   prepVars, activityVars, networkVars>>
Spec == Init /\ [][Next]_vars

\* the readiness aggregator applied to a sequence of evaluations
InitReadiness ==
    /\ InitAssess
    /\ MatchIdle
    /\ ExtractIdle
    /\ SessionIdle
    /\ DownstreamIdle
    /\ ThreadsIdle
    /\ LLMIdle
    /\ NormIdle
    /\ TrackerIdle
    /\ CoursesIdle
    /\ PrepIdle
    /\ ActivityIdle
    /\ NetworkIdle
NextReadiness ==
    /\ Assess
    /\ UNCHANGED <<matchVars, extractVars, sessionVars, downstreamVars,
                   threadVars, llmVars, normVars, trackerVars, courseVars,
                   prepVars, activityVars, networkVars>>
SpecReadiness == InitReadiness /\ [][NextReadiness]_vars

\* the document analysis with the two extraction strategies
InitExtraction ==
    /\ InitExtract
    /\ MatchResultIdle
    /\ AssessIdle
    /\ SessionIdle
    /\ DownstreamIdle
    /\ ThreadsIdle
    /\ LLMIdle
    /\ NormIdle
    /\ TrackerIdle
    /\ CoursesIdle
    /\ PrepIdle
    /\ ActivityIdle
    /\ NetworkIdle
NextExtraction ==
    /\ AnalyzeDocuments
    /\ UNCHANGED <<assessVars, sessionVars, downstreamVars, threadVars,
                   llmVars, normVars, trackerVars, courseVars, prepVars,
                   activityVars, networkVars, match_ran, matched_skills,
                   missing_skills, extra_skills, match_score, model_loaded,
                   result, fit_raised, inference_threw, page_ran>>
SpecExtraction == InitExtraction /\ [][NextExtraction]_vars

\* the interview practice session
InitInterview ==
    /\ InitSession
    /\ MatchIdle
    /\ AssessIdle
    /\ ExtractIdle
    /\ DownstreamIdle
    /\ ThreadsIdle
    /\ LLMIdle
    /\ NormIdle
    /\ TrackerIdle
    /\ CoursesIdle
    /\ PrepIdle
    /\ ActivityIdle
    /\ NetworkIdle
NextInterview ==
    /\ \/ GenerateQuestions
       \/ PreviousQuestion
       \/ NextQuestion
       \/ SkipQuestion
       \/ EvaluateAnswer
       \/ ResetSession
    /\ UNCHANGED <<matchVars, assessVars, extractVars, downstreamVars,
                   threadVars, llmVars, normVars, trackerVars, courseVars,
                   prepVars, activityVars, networkVars>>
SpecInterview == InitInterview /\ [][NextInterview]_vars

\* two concurrent calls of the core functions
InitThreads ==
    /\ InitCalls
    /\ MatchIdle
    /\ AssessIdle
    /\ ExtractIdle
    /\ SessionIdle
    /\ DownstreamIdle
    /\ LLMIdle
    /\ NormIdle
    /\ TrackerIdle
    /\ CoursesIdle
    /\ PrepIdle
    /\ ActivityIdle
    /\ NetworkIdle
NextThreads ==
    /\ \/ \E t \in Threads : EnterCall(t)
       \/ \E t \in Threads : AddScore(t)
       \/ \E t \in Threads : ReturnReadiness(t)
       \/ \E t \in Threads : Intersect(t)
       \/ \E t \in Threads : Differences(t)
       \/ \E t \in Threads : ReturnMatch(t)
    /\ UNCHANGED <<matchVars, assessVars, extractVars, sessionVars,
                   downstreamVars, llmVars, normVars, trackerVars,
                   courseVars, prepVars, activityVars, networkVars>>
SpecThreads == InitThreads /\ [][NextThreads]_vars

\* calls of call_local_llama and enhance_resume_section; a call that has started runs on
InitLocalLLM ==
    /\ InitLLM
    /\ MatchIdle
    /\ AssessIdle
    /\ ExtractIdle
    /\ SessionIdle
    /\ DownstreamIdle
    /\ ThreadsIdle
    /\ NormIdle
    /\ TrackerIdle
    /\ CoursesIdle
    /\ PrepIdle
    /\ ActivityIdle
    /\ NetworkIdle
NextLocalLLM ==
    /\ \/ CallLLM
       \/ CallEnhance
       \/ RunChecks
       \/ FirstPost
       \/ SecondPost
       \/ FinishEnhance
    /\ UNCHANGED <<matchVars, assessVars, extractVars, sessionVars,
                   downstreamVars, threadVars, normVars, trackerVars,
                   courseVars, prepVars, activityVars, networkVars>>
SpecLocalLLM == InitLocalLLM /\ [][NextLocalLLM]_vars /\ WF_vars(NextLocalLLM)

\* the normalizer applied to a raw string and then to its own result
InitNormalizer ==
    /\ InitNorm
    /\ MatchIdle
    /\ AssessIdle
    /\ ExtractIdle
    /\ SessionIdle
    /\ DownstreamIdle
    /\ ThreadsIdle
    /\ LLMIdle
    /\ TrackerIdle
    /\ CoursesIdle
    /\ PrepIdle
    /\ ActivityIdle
    /\ NetworkIdle
NextNormalizer ==
    /\ \/ Normalize
       \/ Renormalize
    /\ UNCHANGED <<matchVars, assessVars, extractVars, sessionVars,
                   downstreamVars, threadVars, llmVars, trackerVars,
                   courseVars, prepVars, activityVars, networkVars>>
SpecNormalizer == InitNormalizer /\ [][NextNormalizer]_vars

\* the progress tracker over several days
InitTracker ==
    /\ InitProgress
    /\ MatchIdle
    /\ AssessIdle
    /\ ExtractIdle
    /\ SessionIdle
    /\ DownstreamIdle
    /\ ThreadsIdle
    /\ LLMIdle
    /\ NormIdle
    /\ CoursesIdle
    /\ PrepIdle
    /\ ActivityIdle
    /\ NetworkIdle
NextTracker ==
    /\ \/ DayPasses
       \/ UpdateActivity
    /\ UNCHANGED <<matchVars, assessVars, extractVars, sessionVars,
                   downstreamVars, threadVars, llmVars, normVars,
                   courseVars, prepVars, activityVars, networkVars>>
SpecTracker == InitTracker /\ [][NextTracker]_vars

\* the course tracker
InitCourses ==
    /\ InitCourseTracker
    /\ MatchIdle
    /\ AssessIdle
    /\ ExtractIdle
    /\ SessionIdle
    /\ DownstreamIdle
    /\ ThreadsIdle
    /\ LLMIdle
    /\ NormIdle
    /\ TrackerIdle
    /\ PrepIdle
    /\ ActivityIdle
    /\ NetworkIdle
NextCourses ==
    /\ \/ AddCourse
       \/ UpdateProgress
       \/ DeleteCourse
    /\ UNCHANGED <<matchVars, assessVars, extractVars, sessionVars,
                   downstreamVars, threadVars, llmVars, normVars,
                   trackerVars, prepVars, activityVars, networkVars>>
SpecCourses == InitCourses /\ [][NextCourses]_vars

\* question generation, answer evaluation and tips
InitPrep ==
    /\ InitInterviewPrep
    /\ MatchIdle
    /\ AssessIdle
    /\ ExtractIdle
    /\ SessionIdle
    /\ DownstreamIdle
    /\ ThreadsIdle
    /\ LLMIdle
    /\ NormIdle
    /\ TrackerIdle
    /\ CoursesIdle
    /\ ActivityIdle
    /\ NetworkIdle
NextPrep ==
    /\ \/ GenerateForPractice
       \/ EvaluateCurrent
       \/ GetTips
    /\ UNCHANGED <<matchVars, assessVars, extractVars, sessionVars,
                   downstreamVars, threadVars, llmVars, normVars,
                   trackerVars, courseVars, activityVars, networkVars>>
SpecPrep == InitPrep /\ [][NextPrep]_vars

\* the readiness aggregator applied to long sessions
InitLongSession ==
    /\ InitLongSessions
    /\ MatchIdle
    /\ ExtractIdle
    /\ SessionIdle
    /\ DownstreamIdle
    /\ ThreadsIdle
    /\ LLMIdle
    /\ NormIdle
    /\ TrackerIdle
    /\ CoursesIdle
    /\ PrepIdle
    /\ ActivityIdle
    /\ NetworkIdle
NextLongSession ==
    /\ Assess
    /\ UNCHANGED <<matchVars, extractVars, sessionVars, downstreamVars,
                   threadVars, llmVars, normVars, trackerVars, courseVars,
                   prepVars, activityVars, networkVars>>
SpecLongSession == InitLongSession /\ [][NextLongSession]_vars

\* the activity counters over reruns of the page script
InitActivity ==
    /\ InitCounters
    /\ MatchIdle
    /\ AssessIdle
    /\ ExtractIdle
    /\ SessionIdle
    /\ DownstreamIdle
    /\ ThreadsIdle
    /\ LLMIdle
    /\ NormIdle
    /\ CoursesIdle
    /\ PrepIdle
    /\ NetworkIdle
NextActivity ==
    /\ \/ UploadResume
       \/ Interact
       \/ RemoveResume
       \/ DayPasses /\ UNCHANGED activityVars
    /\ UNCHANGED <<matchVars, assessVars, extractVars, sessionVars,
                   downstreamVars, threadVars, llmVars, normVars,
                   courseVars, prepVars, networkVars>>
SpecActivity == InitActivity /\ [][NextActivity]_vars

\* mentor search and icebreaker requests
InitNetwork ==
    /\ InitNetworking
    /\ MatchIdle
    /\ AssessIdle
    /\ ExtractIdle
    /\ SessionIdle
    /\ DownstreamIdle
    /\ ThreadsIdle
    /\ LLMIdle
    /\ NormIdle
    /\ TrackerIdle
    /\ CoursesIdle
    /\ PrepIdle
    /\ ActivityIdle
NextNetwork ==
    /\ \/ FindMentors
       \/ GetIcebreaker
       \/ CallIcebreakers
    /\ UNCHANGED <<matchVars, assessVars, extractVars, sessionVars,
                   downstreamVars, threadVars, llmVars, normVars,
                   trackerVars, courseVars, prepVars, activityVars>>
SpecNetwork == InitNetwork /\ [][NextNetwork]_vars

\* the generators below the match, in two runs over the same documents
InitDownstream ==
    /\ InitGenerators
    /\ FitIdle
    /\ AssessIdle
    /\ ExtractIdle
    /\ SessionIdle
    /\ ThreadsIdle
    /\ LLMIdle
    /\ NormIdle
    /\ TrackerIdle
    /\ CoursesIdle
    /\ PrepIdle
    /\ ActivityIdle
    /\ NetworkIdle
NextDownstream ==
    /\ InvokeGenerator
    /\ UNCHANGED <<assessVars, extractVars, sessionVars, threadVars,
                   llmVars, normVars, trackerVars, courseVars, prepVars,
                   activityVars, networkVars, model_loaded, result,
                   fit_raised, inference_threw, page_ran>>
SpecDownstream == InitDownstream /\ [][NextDownstream]_vars

\* ================================================================ claims
\* both documents were uploaded and have text
BothTexts == Truthy(resume_text) /\ Truthy(jd_text)

\* skill s occurs in the extractor's output l
Occurs(s, l) == \E i \in 1..Len(l) : l[i] = s

C2_ScoreFormula ==
    (page_ran /\ BothTexts) =>
        /\ match_ran
        /\ IF ToSet(jd_skills) = {} THEN match_score.num = 0
           ELSE match_score.num * Cardinality(ToSet(jd_skills)) =
                    100 * Cardinality(matched_skills) * match_score.den

\* C3: once the page has run over two documents with text and a nonempty
\* job skill collection, 0 <= score <= 100, and score = 100 exactly when
\* every job skill is a resume skill.
C3_ScoreRange ==
    (page_ran /\ BothTexts /\ jd_skills # <<>>) =>
        /\ match_ran
        /\ 0 <= match_score.num
        /\ match_score.num <= 100 * match_score.den
        /\ (match_score.num = 100 * match_score.den) <=>
              (ToSet(jd_skills) \subseteq ToSet(resume_skills))

\* C4: for an empty resume skill set and a nonempty job skill set the page
\* produces a match result with score 0, missing equal to the job set and
\* matched and extra empty.
C4_EmptyResume ==
    (page_ran /\ BothTexts /\ resume_skills = <<>> /\ jd_skills # <<>>) =>
        /\ match_ran
        /\ match_score.num = 0
        /\ missing_skills = ToSet(jd_skills)
        /\ matched_skills = {}
        /\ extra_skills = {}

\* the per-answer scores of the assessed sequence
AnswerScores == [i \in 1..Len(evaluations) |-> GetOverallScore(evaluations[i])]

\* mean(AnswerScores) >= t and mean(AnswerScores) < t, for a nonempty sequence
MeanAtLeast(t) == SumSeq(AnswerScores) >= t * Len(evaluations)
MeanBelow(t) == SumSeq(AnswerScores) < t * Len(evaluations)

\* C5: for a nonempty sequence the readiness level is the bucket of the mean
\* under inclusive lower thresholds 90, 80, 70, 60; a mean of exactly 60 is
\* "Needs Improvement".
C5_LevelBuckets ==
    (assessed /\ evaluations # <<>>) =>
        /\ readiness.readiness_level = "Excellent" <=> MeanAtLeast(90)
        /\ readiness.readiness_level = "Good" <=>
              (MeanAtLeast(80) /\ MeanBelow(90))
        /\ readiness.readiness_level = "Satisfactory" <=>
              (MeanAtLeast(70) /\ MeanBelow(80))
        /\ readiness.readiness_level = "Needs Improvement" <=>
              (MeanAtLeast(60) /\ MeanBelow(70))
        /\ readiness.readiness_level = "Requires Significant Work" <=>
              MeanBelow(60)

\* C5 witness: several answers whose mean is exactly 60, assessed as
\* "Needs Improvement"
C5_Witness ==
    /\ assessed
    /\ Len(evaluations) >= 2
    /\ SumSeq(AnswerScores) = 60 * Len(evaluations)
    /\ readiness.readiness_level = "Needs Improvement"

\* C6: for a nonempty sequence overall_score is the mean of the per-answer
\* scores rounded to one decimal place (the tenth nearest to the mean), and
\* the reported question count is the length of the sequence.
C6_MeanRounded ==
    (assessed /\ evaluations # <<>>) =>
        /\ 2 * Abs(readiness.overall_score * Len(evaluations)
                     - 10 * SumSeq(AnswerScores)) <= Len(evaluations)
        /\ readiness.total_questions = Len(evaluations)

\* C6 witness: an assessed sequence whose mean is not a whole number of
\* tenths and is rounded upwards
C6_Witness ==
    /\ assessed
    /\ evaluations # <<>>
    /\ (10 * SumSeq(AnswerScores)) % Len(evaluations) # 0
    /\ readiness.overall_score * Len(evaluations) > 10 * SumSeq(AnswerScores)

\* C7: assessing the empty sequence returns overall_score 0, level
\* "Not Started", question count 0 and the single recommendation
\* "Start practicing interview questions".
C7_EmptyAssessment ==
    (assessed /\ evaluations = <<>>) =>
        /\ readiness.overall_score = 0
        /\ readiness.readiness_level = "Not Started"
        /\ "total_questions" \in DOMAIN readiness
        /\ readiness.total_questions = 0
        /\ readiness.recommendations =
              <<"Start practicing interview questions">>

\* predict_fit returned a verdict in the last run of the page
HasVerdict == result # NoVerdict

\* position of a label in the tie-break order
Priority(l) == CHOOSE k \in 1..3 : Labels[k] = l

\* C8: every verdict of predict_fit, primary or fallback, has probabilities
\* that sum to 1 and a prediction of maximal probability, and no label that
\* precedes the prediction in the order Good Fit > Potential Fit > No Fit
\* has the same probability.
C8_VerdictArgmax ==
    HasVerdict =>
        /\ result.probabilities["Good Fit"]
             + result.probabilities["Potential Fit"]
             + result.probabilities["No Fit"] = 1000
        /\ \A l \in LabelSet :
              /\ result.probabilities[l] >= 0
              /\ result.probabilities[l]
                   <= result.probabilities[result.prediction]
              /\ (result.probabilities[l]
                    = result.probabilities[result.prediction])
                 => Priority(result.prediction) <= Priority(l)

\* C8 witness: a primary-path verdict in which two labels tie for the
\* highest probability and the one of higher priority is predicted
C8_Witness ==
    /\ HasVerdict
    /\ result.model_type = "advanced_ml"
    /\ \E l \in LabelSet :
          /\ l # result.prediction
          /\ result.probabilities[l] = result.probabilities[result.prediction]

\* a FitVerdict with all four fields, a known label and a known model type
WellFormed(v) ==
    /\ DOMAIN v = {"prediction", "confidence", "probabilities", "model_type"}
    /\ v.prediction \in LabelSet
    /\ v.confidence \in 0..1000
    /\ DOMAIN v.probabilities = LabelSet
    /\ v.model_type \in {"advanced_ml", "fallback"}

\* C9: in every run that reaches the fit assessment predict_fit raises
\* nothing and returns a well-formed verdict, and when the model was not
\* loaded or its inference threw in that call the verdict is a fallback one.
C9_NeverRaises ==
    /\ ~fit_raised
    /\ match_ran =>
          /\ HasVerdict
          /\ WellFormed(result)
          /\ (~model_loaded \/ inference_threw) =>
                result.model_type = "fallback"

\* C9 witness: the model was loaded, inference threw in the call, and the
\* caller holds a fallback verdict
C9_Witness ==
    /\ match_ran
    /\ model_loaded
    /\ inference_threw
    /\ HasVerdict
    /\ result.model_type = "fallback"

\* C10: a fallback verdict is Good Fit when match_score >= 70, Potential Fit
\* when 40 <= match_score < 70 and No Fit otherwise, and its confidence lies
\* in [0.5, 0.95].
C10_FallbackThresholds ==
    (HasVerdict /\ result.model_type = "fallback") =>
        /\ result.prediction = "Good Fit" <=>
              match_score.num >= 70 * match_score.den
        /\ result.prediction = "Potential Fit" <=>
              (match_score.num >= 40 * match_score.den
               /\ match_score.num < 70 * match_score.den)
        /\ result.prediction = "No Fit" <=>
              match_score.num < 40 * match_score.den
        /\ result.confidence >= 500
        /\ result.confidence <= 950

\* C10 witness: a fallback verdict for a match score of 100, whose
\* confidence is the upper clip
C10_Witness ==
    /\ HasVerdict
    /\ result.model_type = "fallback"
    /\ match_score.num = 100 * match_score.den
    /\ result.prediction = "Good Fit"
    /\ result.confidence = 950


\* the text of document d and the skills the script holds for it
TextOf(d) == IF d = "resume" THEN resume_text ELSE jd_text
SkillsOf(d) == IF d = "resume" THEN resume_skills ELSE jd_skills

\* C11: whenever the NER strategy fails for a document with text (model or
\* package missing, or an exception during the extraction), the skills held
\* for that document are the lexicon extractor's result for the same text,
\* and no exception of the extraction leaves the script.
C11_NerFallback ==
    analysed =>
        /\ ~extract_raised
        /\ \A d \in Docs :
              (Truthy(TextOf(d)) /\ ner_failed[d]) =>
                  /\ extracted[d]
                  /\ SkillsOf(d) = lexicon_out[d]

\* C11 witness: NER was in use, raised for the resume, and the resume skills
\* are the non-empty lexicon result
C11_Witness ==
    /\ analysed
    /\ use_ner
    /\ ner_failed["resume"]
    /\ resume_skills # <<>>
    /\ resume_skills = lexicon_out["resume"]

\* C12: a document whose text is empty is analysed as a zero-skill input:
\* extraction yields the empty skill set for it, and the script neither
\* skips it nor reports it as a document still to be uploaded.
C12_EmptyText ==
    analysed =>
        \A d \in Docs :
            TextOf(d) = "empty" =>
                /\ extracted[d]
                /\ SkillsOf(d) = <<>>
                /\ notice[d] \notin {"upload", "none"}


\* the per-answer scores of the session's evaluations
SessionAnswerScores ==
    [i \in 1..Len(interview_evaluations) |->
        GetOverallScore(interview_evaluations[i])]

\* C13: whenever the session holds evaluations, the assessment shown is the
\* assessment of the complete current sequence: its question count is the
\* length of the sequence, its score is the mean of all the scores rounded
\* to one decimal, and its level is the bucket of that mean.
C13_RecomputedFromAll ==
    (interview_questions > 0 /\ interview_evaluations # <<>>) =>
        LET n == Len(interview_evaluations)
            total == SumSeq(SessionAnswerScores)
        IN  /\ readiness_shown # NoReadiness
            /\ readiness_shown.total_questions = n
            /\ 2 * Abs(readiness_shown.overall_score * n - 10 * total) <= n
            /\ readiness_shown.readiness_level = "Good" <=>
                  (total >= 80 * n /\ total < 90 * n)
            /\ readiness_shown.readiness_level = "Satisfactory" <=>
                  (total >= 70 * n /\ total < 80 * n)
            /\ readiness_shown.readiness_level = "Requires Significant Work"
                  <=> total < 60 * n

\* C13 witness: after a second answer of a different score the assessment
\* shown covers both answers
C13_Witness ==
    /\ interview_questions > 0
    /\ Len(interview_evaluations) = 2
    /\ interview_evaluations[1] = 85
    /\ interview_evaluations[2] = 55
    /\ readiness_shown # NoReadiness
    /\ readiness_shown.overall_score = 700
    /\ readiness_shown.total_questions = 2


C15_SameOnEveryRun ==
    /\ skills_shown[1] = skills_shown[2]
    /\ \A gen \in Generators :
          (generator_invoked[1] = gen /\ generator_invoked[2] = gen) =>
              ToSet(target_skills[1]) = ToSet(target_skills[2])


\* C16: a call of a core function that has returned while another call was
\* in progress has returned what the same call returns on its own.
C16_ConcurrentSameResult ==
    \A t \in Threads :
        thread_pc[t] = "returned" =>
            thread_result[t] = ResultAlone(thread_call[t])

\* C16 witness: two readiness calls over different lists overlapped and
\* both returned
C16_Witness ==
    /\ overlapped
    /\ \A t \in Threads : thread_pc[t] = "returned"
    /\ thread_call[1].kind = "readiness"
    /\ thread_call[2].kind = "readiness"
    /\ Len(thread_call[1].evaluations) = 2
    /\ Len(thread_call[2].evaluations) = 3
    /\ thread_result[1].readiness.overall_score = 775
    /\ thread_result[2].readiness.overall_score = 517


C19_Safety ==
    /\ requests_sent > 0 => checks_passed
    /\ requests_sent <= MAX_RETRIES + 1
    /\ resent_after \subseteq {"timeout", "connection_error"}
    /\ ~llm_raised
    /\ (llm_pc = "returned" /\ last_failure # "none") =>
          StartsWithError(llm_result)

\* C19: call_local_llama sends a generate request only after both checks
\* succeeded, sends at most MAX_RETRIES + 1 of them, sends one again only
\* after a timeout or a connection error, returns an "Error:" string after
\* the last failed attempt without raising, and every call returns.
C19_BoundedRetries ==
    /\ []C19_Safety
    /\ (llm_pc \in {"checks", "first_post", "second_post"})
          ~> (llm_pc = "returned")


\* C18: a canonical form handed to normalize again comes back unchanged,
\* and no target of the alias table is itself an alias.
C18_Renormalization ==
    /\ norm_stage = 2 => renormalized = normalized
    /\ \A a \in DOMAIN AliasTable : AliasTable[a] \notin DOMAIN AliasTable

\* C18 witness: an upper-case alias with punctuation was resolved and its
\* canonical form normalized again
C18_Witness ==
    /\ norm_stage = 2
    /\ raw = <<"J", "!", "s">>
    /\ normalized = <<"j", "a", "v", "a", "s", "c", "r", "i", "p", "t">>
    /\ renormalized = <<"j", "a", "v", "a", "s", "c", "r", "i", "p", "t">>


\* C20: after a call of update_activity, streak_days is one more than before
\* when the call came on the day after the previously recorded activity, the
\* same as before when it came on the same day, and 1 when it came two or
\* more days later or when no activity had been recorded.
C20_StreakRule ==
    call_day # NoDay =>
        /\ prev_activity = NoDay => streak_days = 1
        /\ (prev_activity # NoDay /\ call_day - prev_activity = 1) =>
              streak_days = prev_streak + 1
        /\ (prev_activity # NoDay /\ call_day = prev_activity) =>
              streak_days = prev_streak
        /\ (prev_activity # NoDay /\ call_day - prev_activity >= 2) =>
              streak_days = 1


\* C21: the evaluation shown for the question at the current index is the
\* one produced for the answer to that question, and no question has more
\* than one evaluation in the list the readiness assessment is computed
\* from.
C21_EvaluationOfQuestion ==
    /\ EvaluationShown =>
          evaluated_questions[ShownPosition] = current_question_index
    /\ \A i, j \in 1..Len(evaluated_questions) :
          evaluated_questions[i] = evaluated_questions[j] => i = j


\* C22: a tracked course has status Completed exactly when its
\* progress_percentage is 100.
C22_CompletedIffFull ==
    \A course \in progress_data :
        course.status = "Completed" <=> course.progress_percentage = 100

\* C25: two different (course_title, platform) pairs never get the same
\* course id, and the entry under the id that add_course returned is the
\* course that was added.
C25_DistinctIds ==
    /\ \A t1, t2 \in CourseTitles, p1, p2 \in Platforms :
          GetCourseId(t1, p1) = GetCourseId(t2, p2) => (t1 = t2 /\ p1 = p2)
    /\ (last_added # NoAdd /\ last_added.course_id \in TrackedIds) =>
          /\ EntryOf(last_added.course_id).course_title =
                last_added.course_title
          /\ EntryOf(last_added.course_id).platform = last_added.platform


\* C23: evaluate_answer has not raised for a question that
\* generate_interview_questions returned, it returned an evaluation, and
\* with the LLM unreachable, in error or unparsable that evaluation is the
\* length-based fallback.
C23_EvaluateNeverRaises ==
    prep_stage = "evaluated" =>
        /\ ~evaluate_raised
        /\ evaluation # NoEvaluation
        /\ (\/ ~llm_reachable
            \/ llm_response \in {"error_string", "no_json", "bad_json"}) =>
              evaluation = FallbackEvaluation(answer_words)

\* C28: generate_interview_tips returned a text that is not empty and does
\* not start with "Error:", also when the LLM was unreachable or failed.
C28_TipsFallBack ==
    prep_stage = "tips" => (tips # <<>> /\ ~StartsWithError(tips))


\* the threshold bucket of a score given in tenths
BucketOfTenths(tenths) ==
    IF tenths >= 900 THEN "Excellent"
    ELSE IF tenths >= 800 THEN "Good"
    ELSE IF tenths >= 700 THEN "Satisfactory"
    ELSE IF tenths >= 600 THEN "Needs Improvement"
    ELSE "Requires Significant Work"

\* C24: the readiness level returned is the threshold bucket of the
\* overall_score returned with it.
C24_LevelOfReturnedScore ==
    (assessed /\ evaluations # <<>>) =>
        readiness.readiness_level = BucketOfTenths(readiness.overall_score)


\* C26: resumes_analyzed and skills_assessed count the resumes analysed, one
\* per resume, and the resume_master achievement is held only after three
\* resumes.
C26_OncePerResume ==
    /\ resumes_analyzed = resumes_uploaded
    /\ skills_assessed = resumes_uploaded
    /\ "resume_master" \in achievements => resumes_uploaded >= 3


\* C27: once mentors have been found, a request for an icebreaker for any
\* listed mentor ends without an exception and shows a non-empty list of
\* conversation starters, also for a mentor who shares no skill with the
\* target skills.
C27_IcebreakerForAnyMentor ==
    net_stage = "asked" =>
        /\ icebreaker_raised = "none"
        /\ icebreakers # <<>>

====
